---- MODULE Spec2Model ----
(***************************************************************************)
(* Model of cala's `when` module (src/src/when.rs): the rational Duration  *)
(* with its Div<i32> / Mul<i32> operators, the Clock constructors          *)
(* Clock::new / Clock::utc / Clock::local and Clock::since.                *)
(*                                                                         *)
(* The Rust code computes in i32, u32, i64 and i128.  Values of those      *)
(* types do not fit the model checker's native integers, so every machine  *)
(* integer is held as a sign-magnitude number of unbounded size (a "wide"  *)
(* integer) and each fixed-width Rust operation is the exact operation     *)
(* followed by the overflow behaviour of that width: a panic when the      *)
(* build has overflow checks (debug profile), two's-complement wrap-around *)
(* when it has not (release profile).  `as` casts always wrap.             *)
(***************************************************************************)
EXTENDS Integers, Sequences, FiniteSets, TLC

(***************************************************************************)
(* Wide integers.  A magnitude is a little-endian sequence of limbs in     *)
(* 0 .. Limb-1 without a most-significant zero limb; <<>> is zero.  A wide *)
(* integer is [neg, mag], with neg = FALSE for zero, so equal numbers are  *)
(* equal records.                                                          *)
(***************************************************************************)
Limb == 10000

RECURSIVE MagOfNat(_)
MagOfNat(n) == IF n = 0 THEN <<>> ELSE <<n % Limb>> \o MagOfNat(n \div Limb)

MagHead(a) == IF a = <<>> THEN 0 ELSE Head(a)

MagTail(a) == IF a = <<>> THEN <<>> ELSE Tail(a)

RECURSIVE MagAddC(_, _, _)
MagAddC(a, b, carry) ==
    IF a = <<>> /\ b = <<>>
    THEN (IF carry = 0 THEN <<>> ELSE <<carry>>)
    ELSE <<(MagHead(a) + MagHead(b) + carry) % Limb>>
         \o MagAddC(MagTail(a), MagTail(b),
                    (MagHead(a) + MagHead(b) + carry) \div Limb)

MagAdd(a, b) == MagAddC(a, b, 0)

RECURSIVE MagTrim(_)
MagTrim(a) ==
    IF a = <<>> THEN <<>>
    ELSE IF a[Len(a)] = 0 THEN MagTrim(SubSeq(a, 1, Len(a) - 1))
    ELSE a

\* -1, 0, 1 as a < b, a = b, a > b; equal lengths compare from the top limb.
RECURSIVE MagCmpAt(_, _, _)
MagCmpAt(a, b, i) ==
    IF i = 0 THEN 0
    ELSE IF a[i] < b[i] THEN -1
    ELSE IF a[i] > b[i] THEN 1
    ELSE MagCmpAt(a, b, i - 1)

MagCmp(a, b) ==
    IF Len(a) < Len(b) THEN -1
    ELSE IF Len(a) > Len(b) THEN 1
    ELSE MagCmpAt(a, b, Len(a))

\* a - b for a >= b, before trimming.
RECURSIVE MagSubB(_, _, _)
MagSubB(a, b, borrow) ==
    IF a = <<>> THEN <<>>
    ELSE IF Head(a) - MagHead(b) - borrow < 0
    THEN <<Head(a) - MagHead(b) - borrow + Limb>> \o MagSubB(Tail(a), MagTail(b), 1)
    ELSE <<Head(a) - MagHead(b) - borrow>> \o MagSubB(Tail(a), MagTail(b), 0)

MagSub(a, b) == MagTrim(MagSubB(a, b, 0))

\* a times one limb k in 0 .. Limb-1, before trimming.
RECURSIVE MagMulLimb(_, _, _)
MagMulLimb(a, k, carry) ==
    IF a = <<>>
    THEN (IF carry = 0 THEN <<>> ELSE <<carry>>)
    ELSE <<(Head(a) * k + carry) % Limb>>
         \o MagMulLimb(Tail(a), k, (Head(a) * k + carry) \div Limb)

MagShift(a) == IF a = <<>> THEN <<>> ELSE <<0>> \o a

RECURSIVE MagMul(_, _)
MagMul(a, b) ==
    IF a = <<>> \/ b = <<>> THEN <<>>
    ELSE MagAdd(MagTrim(MagMulLimb(a, Head(b), 0)), MagShift(MagMul(a, Tail(b))))

\* Long division of a by b /= 0, most significant limb first.  MagDigit is the
\* largest k in lo .. hi with k * b <= r, given lo * b <= r.
RECURSIVE MagDigit(_, _, _, _)
MagDigit(r, b, lo, hi) ==
    IF lo = hi THEN lo
    ELSE IF MagCmp(MagTrim(MagMulLimb(b, (lo + hi + 1) \div 2, 0)), r) <= 0
    THEN MagDigit(r, b, (lo + hi + 1) \div 2, hi)
    ELSE MagDigit(r, b, lo, ((lo + hi + 1) \div 2) - 1)

MagDivPut(q, r, b, k) ==
    [q |-> MagTrim(<<k>> \o q), r |-> MagSub(r, MagTrim(MagMulLimb(b, k, 0)))]

MagDivLimb(h, limb, b) ==
    MagDivPut(h.q, MagTrim(<<limb>> \o h.r), b,
              MagDigit(MagTrim(<<limb>> \o h.r), b, 0, Limb - 1))

RECURSIVE MagDivModAt(_, _, _)
MagDivModAt(a, b, i) ==
    IF i > Len(a) THEN [q |-> <<>>, r |-> <<>>]
    ELSE MagDivLimb(MagDivModAt(a, b, i + 1), a[i], b)

MagDivMod(a, b) == MagDivModAt(a, b, 1)

WMake(neg, mag) == [neg |-> (neg /\ mag /= <<>>), mag |-> mag]

\* The wide integer of a native integer.
W(n) == IF n < 0 THEN WMake(TRUE, MagOfNat(0 - n)) ELSE WMake(FALSE, MagOfNat(n))

WNeg(x) == WMake(~x.neg, x.mag)

WAbs(x) == WMake(FALSE, x.mag)

WIsZero(x) == x.mag = <<>>

WAdd(x, y) ==
    IF x.neg = y.neg THEN WMake(x.neg, MagAdd(x.mag, y.mag))
    ELSE IF MagCmp(x.mag, y.mag) >= 0 THEN WMake(x.neg, MagSub(x.mag, y.mag))
    ELSE WMake(y.neg, MagSub(y.mag, x.mag))

WSub(x, y) == WAdd(x, WNeg(y))

WMul(x, y) == WMake(x.neg /= y.neg, MagMul(x.mag, y.mag))

\* Rust's / and % on integers: the quotient truncates toward zero and the
\* remainder takes the sign of the dividend.
WQuot(x, y) == WMake(x.neg /= y.neg, MagDivMod(x.mag, y.mag).q)

WRem(x, y) == WMake(x.neg, MagDivMod(x.mag, y.mag).r)

WLess(x, y) ==
    IF x.neg /= y.neg THEN x.neg
    ELSE IF x.neg THEN MagCmp(y.mag, x.mag) < 0
    ELSE MagCmp(x.mag, y.mag) < 0

WLeq(x, y) == ~WLess(y, x)

\* The non-negative residue of x modulo m > 0.
WResidue(r, m) == IF WIsZero(r) \/ ~r.neg THEN r ELSE WAdd(r, m)

WMod(x, m) == WResidue(WRem(x, m), m)

\* The powers of two that bound the machine integer types.
Two31 == WAdd(W(2147483647), W(1))

Two32 == WMul(W(65536), W(65536))

Two63 == WMul(Two31, Two32)

Two64 == WMul(Two32, Two32)

(***************************************************************************)
(* Rust's fixed-width integers.  In* is the range of a type, As* the `as`  *)
(* cast to it (the low bits, read in two's complement).                    *)
(***************************************************************************)
InI32(v) == WLeq(WNeg(Two31), v) /\ WLess(v, Two31)

InU32(v) == ~v.neg /\ WLess(v, Two32)

InI64(v) == WLeq(WNeg(Two63), v) /\ WLess(v, Two63)

AsU32(v) == IF InU32(v) THEN v ELSE WMod(v, Two32)

\* The residue r modulo `full` read as a signed number: from `half` up it
\* stands for r - full.
TwosComplement(r, half, full) == IF WLess(r, half) THEN r ELSE WSub(r, full)

AsI32(v) == IF InI32(v) THEN v ELSE TwosComplement(WMod(v, Two32), Two31, Two32)

AsI64(v) == IF InI64(v) THEN v ELSE TwosComplement(WMod(v, Two64), Two63, Two64)

(***************************************************************************)
(* Duration: seconds (i32) over denominator (u32).  Duration::new stores   *)
(* both fields as given, a zero denominator included.                      *)
(***************************************************************************)
new(seconds, denominator) == [seconds |-> seconds, denominator |-> denominator]

NANOSECOND == new(W(1), W(1000000000))

MICROSECOND == new(W(1), W(1000000))

MILLISECOND == new(W(1), W(1000))

SECOND == new(W(1), W(1))

MINUTE == new(W(60), W(1))

HOUR == new(W(60 * 60), W(1))

DAY == new(W(24 * 60 * 60), W(1))

\* The outcome of an operator call: a panic, or the Duration it returns.
DurationPanic == [panic |-> TRUE, seconds |-> W(0), denominator |-> W(0)]

DurationOk(seconds, denominator) ==
    [panic |-> FALSE, seconds |-> seconds, denominator |-> denominator]

\* `if other.is_negative() { self.seconds = -self.seconds; other = -other; }`
\* as both operators start: each negation overflows on i32::MIN, which panics
\* under overflow checks and leaves i32::MIN in place without them.
negate(checks, seconds, other) ==
    IF ~other.neg
    THEN [panic |-> FALSE, seconds |-> seconds, other |-> other]
    ELSE IF checks /\ (~InI32(WNeg(seconds)) \/ ~InI32(WNeg(other)))
    THEN [panic |-> TRUE, seconds |-> seconds, other |-> other]
    ELSE [panic |-> FALSE, seconds |-> AsI32(WNeg(seconds)),
          other |-> AsI32(WNeg(other))]

\* Duration / i32: the u32 product denominator * (other as u32).
divProduct(checks, seconds, product) ==
    IF checks /\ ~InU32(product) THEN DurationPanic
    ELSE DurationOk(seconds, AsU32(product))

divNegated(checks, self, n) ==
    IF n.panic THEN DurationPanic
    ELSE divProduct(checks, n.seconds, WMul(self.denominator, AsU32(n.other)))

div(checks, self, other) == divNegated(checks, self, negate(checks, self.seconds, other))

\* Duration * i32: the i32 product seconds * (other as i32).
mulProduct(checks, product, denominator) ==
    IF checks /\ ~InI32(product) THEN DurationPanic
    ELSE DurationOk(AsI32(product), denominator)

mulNegated(checks, self, n) ==
    IF n.panic THEN DurationPanic
    ELSE mulProduct(checks, WMul(n.seconds, AsI32(n.other)), self.denominator)

mul(checks, self, other) == mulNegated(checks, self, negate(checks, self.seconds, other))

(***************************************************************************)
(* Clock: a chrono::NaiveDateTime, held as the day number of its date      *)
(* (days since 1970-01-01, proleptic Gregorian), the second of the day and *)
(* the nanosecond of the second.                                           *)
(***************************************************************************)
\* The years chrono's dates span (-262143-01-01 .. +262142-12-31).
MIN_YEAR == -262143

MAX_YEAR == 262142

is_leap_year(year) == (year % 4 = 0 /\ year % 100 /= 0) \/ year % 400 = 0

days_in_month(year, month) ==
    IF month = 2 THEN (IF is_leap_year(year) THEN 29 ELSE 28)
    ELSE IF month \in {4, 6, 9, 11} THEN 30
    ELSE 31

\* What `.ymd(year, month, day)` accepts; it panics on anything else.
valid_ymd(year, month, day) ==
    /\ MIN_YEAR <= year /\ year <= MAX_YEAR
    /\ 1 <= month /\ month <= 12
    /\ 1 <= day /\ day <= days_in_month(year, month)

\* What `.and_hms(hour, min, sec)` accepts; it panics on anything else.
valid_hms(hour, min, sec) == hour < 24 /\ min < 60 /\ sec < 60

\* The day number of a valid date.
days_from_civil(year, month, day) ==
    LET y == IF month <= 2 THEN year - 1 ELSE year
        era == y \div 400
        yoe == y - era * 400
        mp == (month + 9) % 12
        doy == (153 * mp + 2) \div 5 + day - 1
        doe == yoe * 365 + yoe \div 4 - yoe \div 100 + doy
    IN era * 146097 + doe - 719468

\* The outcome of a constructor call: a panic, or Some(Clock).  No constructor
\* has a `None` in its body.
ClockPanic == [kind |-> "panic", days |-> 0, secs |-> 0, frac |-> 0]

Some(days, secs, frac) == [kind |-> "Some", days |-> days, secs |-> secs, frac |-> frac]

\* Clock::utc: `.ymd(..).and_hms(..)` unwrap their checks, so an invalid field
\* panics; every return is Some.
utc(year, month, day, hour, min, sec) ==
    IF ~valid_ymd(year, month, day) \/ ~valid_hms(hour, min, sec) THEN ClockPanic
    ELSE Some(days_from_civil(year, month, day), hour * 3600 + min * 60 + sec, 0)

\* Whether a day number is one of chrono's dates.
representable(days) ==
    /\ days_from_civil(MIN_YEAR, 1, 1) <= days
    /\ days <= days_from_civil(MAX_YEAR, 12, 31)

\* The local time `secs` seconds into day `days`, moved to UTC.
local_to_utc(days, secs, offset) ==
    IF representable(days + ((secs - offset) \div 86400))
    THEN Some(days + ((secs - offset) \div 86400), (secs - offset) % 86400, 0)
    ELSE ClockPanic

\* Clock::local: the same fields read in the host's zone, `offset` seconds
\* east of UTC; `single` is whether the zone maps the local time to exactly
\* one instant.  `.ymd` and `.and_hms` panic when it does not, and when the
\* instant in UTC falls outside chrono's dates.
local(year, month, day, hour, min, sec, offset, single) ==
    IF ~valid_ymd(year, month, day) \/ ~valid_hms(hour, min, sec) \/ ~single
    THEN ClockPanic
    ELSE local_to_utc(days_from_civil(year, month, day),
                      hour * 3600 + min * 60 + sec, offset)

NANOS_PER_SEC == 1000000000

\* `self.0 - other.0`: a chrono::Duration, whole seconds rounded down plus
\* nanoseconds in 0 .. NANOS_PER_SEC-1.
signed_duration_since(self, other) ==
    IF self.frac < other.frac
    THEN [secs |-> WAdd(WMul(W(self.days - other.days), W(86400)),
                        W(self.secs - other.secs - 1)),
          nanos |-> self.frac - other.frac + NANOS_PER_SEC]
    ELSE [secs |-> WAdd(WMul(W(self.days - other.days), W(86400)),
                        W(self.secs - other.secs)),
          nanos |-> self.frac - other.frac]

\* chrono::Duration::num_seconds: whole seconds rounded toward zero.
num_seconds(duration) ==
    IF duration.secs.neg /\ duration.nanos > 0 THEN WAdd(duration.secs, W(1))
    ELSE duration.secs

\* `(duration - Duration::seconds(duration.num_seconds())).num_nanoseconds()`:
\* the rest below one second, with the sign of the duration.
subsec_nanos(duration) ==
    IF duration.secs.neg /\ duration.nanos > 0 THEN W(duration.nanos - NANOS_PER_SEC)
    ELSE W(duration.nanos)

(***************************************************************************)
(* Clock::since.  It returns an i64 or panics; it has no other outcome.    *)
(* The i128 steps cannot overflow (an i64 times an i32, a remainder below  *)
(* 2^32 times 10^9), so they are exact; the two `as i64` casts keep the    *)
(* low 64 bits; the closing i64 addition panics on overflow under overflow *)
(* checks and wraps without them.                                          *)
(***************************************************************************)
Returned(count) == [kind |-> "return", at |-> "", count |-> count]

Panicked(at) == [kind |-> "panic", at |-> at, count |-> W(0)]

\* A fence-post slip: both end points of the interval are counted.
add_together_inclusive(checks, seconds, nanos) ==
    Returned(WAdd(WAdd(seconds, WQuot(nanos, W(NANOS_PER_SEC))), W(1)))

\* `seconds + (nanos / 1_000_000_000)` on i64.
add_together(checks, seconds, nanos) ==
    IF InI64(WAdd(seconds, WQuot(nanos, W(NANOS_PER_SEC))))
    THEN Returned(WAdd(seconds, WQuot(nanos, W(NANOS_PER_SEC))))
    ELSE IF checks THEN Panicked("seconds + (nanos / 1_000_000_000)")
    ELSE Returned(AsI64(WAdd(seconds, WQuot(nanos, W(NANOS_PER_SEC)))))

\* A slip that drops `seconds_remaining`: what the seconds leave over after
\* the division is lost instead of being carried into the nanoseconds.
denominator_step_no_carry(checks, seconds, nanos, frac_den) ==
    IF WIsZero(frac_den) THEN Panicked("seconds % frac_den")
    ELSE add_together(checks, AsI64(WQuot(seconds, frac_den)),
                      AsI64(WQuot(nanos, frac_den)))

\* The body of since from the scaled i128 values on (lines 275-281).
denominator_step(checks, seconds, nanos, frac_den) ==
    IF WIsZero(frac_den) THEN Panicked("seconds % frac_den")
    ELSE LET seconds_remaining == WRem(seconds, frac_den)
             nanos_all == WAdd(nanos, WMul(seconds_remaining, W(NANOS_PER_SEC)))
         IN add_together(checks, AsI64(WQuot(seconds, frac_den)),
                         AsI64(WQuot(nanos_all, frac_den)))

\* since given the difference as whole seconds and the rest in nanoseconds
\* (lines 268-281): both are multiplied by the numerator first.
since_parts(checks, seconds, nanos, frac) ==
    denominator_step(checks, WMul(seconds, frac.seconds), WMul(nanos, frac.seconds),
                     frac.denominator)

since(checks, self, other, frac) ==
    since_parts(checks, num_seconds(signed_duration_since(self, other)),
                subsec_nanos(signed_duration_since(self, other)), frac)

(***************************************************************************)
(* The program state.  The module's functions are pure, so the state is    *)
(* what a caller holds: the build profile, the Duration and the two Clocks *)
(* in hand, and a record of the last call of each kind with its outcome.   *)
(* A panic aborts the program.                                             *)
(***************************************************************************)
VARIABLES
    checks,   \* TRUE: the build has overflow checks (debug); FALSE: it wraps
    aborted,  \* a call has panicked
    frac,     \* the Duration in hand
    arith,    \* the last Duration construction or operator call
    ops,      \* how many `/` and `*` have been applied
    clean,    \* no zero denominator was given to new, no zero factor to / or *
    now,      \* the Clock `since` is called on
    start,    \* the Clock it is measured from
    made,     \* the last Clock constructor call
    elapsed   \* the call of `since`, once made

vars == <<checks, aborted, frac, arith, ops, clean, now, start, made, elapsed>>

MinI32 == WNeg(Two31)

MaxI32 == W(2147483647)

MaxU32 == WSub(Two32, W(1))

\* Bounds of the model: the `/` and `*` applied in a row, and the small
\* seconds, numerators and denominators that are enumerated in full.
MaxOps == 2

MaxSecs == 2

MaxNum == 2

MaxDen == 3

NoArith == [op |-> "none", self |-> SECOND, other |-> W(0), out |-> DurationOk(W(1), W(1))]

NoClock == [op |-> "none", year |-> 0, month |-> 0, day |-> 0, hour |-> 0, min |-> 0,
            sec |-> 0, out |-> Some(0, 0, 0)]

NotCalled == [called |-> FALSE, out |-> Returned(W(0))]

NamedDurations == {NANOSECOND, MICROSECOND, MILLISECOND, SECOND, MINUTE, HOUR, DAY}

\* Arguments of Duration::new, `/` and `*`: the small values around zero and
\* the ends of the i32 and u32 ranges.
NewSeconds == {W(-1), W(0), W(1), W(7), MinI32, MaxI32}

NewDenominators == {W(0), W(1), W(3), W(65536), MaxU32}

Factors == {MinI32, W(-2), W(-1), W(0), W(1), W(3), W(5), W(65536), W(100000), MaxI32}

\* Duration::new(seconds, denominator)
New(seconds, denominator) ==
    /\ ~aborted /\ arith.op = "none"
    /\ frac' = new(seconds, denominator)
    /\ arith' = [op |-> "new", self |-> frac', other |-> W(0),
                 out |-> DurationOk(seconds, denominator)]
    /\ clean' = (clean /\ ~WIsZero(denominator))
    /\ UNCHANGED <<checks, aborted, ops, now, start, made, elapsed>>

\* One of the constants NANOSECOND .. DAY
Named(constant) ==
    /\ ~aborted /\ arith.op = "none"
    /\ frac' = constant
    /\ arith' = [op |-> "const", self |-> constant, other |-> W(0),
                 out |-> DurationOk(constant.seconds, constant.denominator)]
    /\ UNCHANGED <<checks, aborted, ops, clean, now, start, made, elapsed>>

\* The state after an operator call with outcome `out`.
Applied(op, other, out) ==
    /\ arith' = [op |-> op, self |-> frac, other |-> other, out |-> out]
    /\ frac' = IF out.panic THEN frac ELSE new(out.seconds, out.denominator)
    /\ aborted' = out.panic
    /\ ops' = ops + 1
    /\ clean' = (clean /\ ~WIsZero(other))
    /\ UNCHANGED <<checks, now, start, made, elapsed>>

\* frac / other
Div(other) ==
    /\ ~aborted /\ arith.op /= "none" /\ ops < MaxOps
    /\ Applied("div", other, div(checks, frac, other))

\* frac * other
Mul(other) ==
    /\ ~aborted /\ arith.op /= "none" /\ ops < MaxOps
    /\ Applied("mul", other, mul(checks, frac, other))

InitIdle ==
    /\ checks \in BOOLEAN
    /\ aborted = FALSE
    /\ arith = NoArith
    /\ ops = 0
    /\ clean = TRUE
    /\ made = NoClock
    /\ elapsed = NotCalled

InitDuration ==
    /\ InitIdle
    /\ frac = SECOND
    /\ now = Some(0, 0, 0)
    /\ start = Some(0, 0, 0)

NextDuration ==
    \/ \E seconds \in NewSeconds, denominator \in NewDenominators :
           New(seconds, denominator)
    \/ \E constant \in NamedDurations : Named(constant)
    \/ \E other \in Factors : Div(other)
    \/ \E other \in Factors : Mul(other)

SpecDuration == InitDuration /\ [][NextDuration]_vars

(***************************************************************************)
(* Clock constructors.                                                     *)
(***************************************************************************)
Call(op, year, month, day, hour, min, sec, out) ==
    [op |-> op, year |-> year, month |-> month, day |-> day, hour |-> hour,
     min |-> min, sec |-> sec, out |-> out]

\* The state after a constructor call with outcome `out`.
Constructed(call) ==
    /\ made' = call
    /\ now' = IF call.out.kind = "panic" THEN now ELSE call.out
    /\ aborted' = (call.out.kind = "panic")
    /\ UNCHANGED <<checks, frac, arith, ops, clean, start, elapsed>>

\* chrono's Utc::now() on a host clock reading `nanos` nanoseconds into second
\* `secs` of day `days`: it panics on a reading before 1970-01-01 ("system
\* time before Unix epoch") and on one past the last of chrono's dates.  It
\* gives no leap-second reading, so the nanosecond is below NANOS_PER_SEC.
utc_now(days, secs, nanos) ==
    IF days < 0 \/ ~representable(days) THEN ClockPanic
    ELSE Some(days, secs, nanos)

\* Clock::new() with the host clock at the given reading.
ClockNew(days, secs, nanos) ==
    /\ ~aborted /\ ~elapsed.called
    /\ Constructed(Call("new", 0, 0, 0, 0, 0, 0, utc_now(days, secs, nanos)))

\* Host clock readings: either side of the epoch, a present-day one, and
\* either side of the last of chrono's dates.
ClockDays == {-719163, -1, 0, 19723, days_from_civil(MAX_YEAR, 12, 31),
              days_from_civil(MAX_YEAR, 12, 31) + 1}

\* Clock::utc(year, month, day, hour, min, sec)
Utc(year, month, day, hour, min, sec) ==
    /\ ~aborted /\ ~elapsed.called
    /\ Constructed(Call("utc", year, month, day, hour, min, sec,
                        utc(year, month, day, hour, min, sec)))

\* Clock::local(year, month, day, hour, min, sec) on a host `offset` seconds
\* east of UTC.
Local(year, month, day, hour, min, sec, offset, single) ==
    /\ ~aborted /\ ~elapsed.called
    /\ Constructed(Call("local", year, month, day, hour, min, sec,
                        local(year, month, day, hour, min, sec, offset, single)))

\* Field values at and past each end of the valid ranges (year is i32; month,
\* day, hour, min and sec are u8).
Years == {MIN_YEAR - 1, MIN_YEAR, 2023, 2024, MAX_YEAR, MAX_YEAR + 1}

Months == {0, 1, 2, 4, 12, 13}

Days == {0, 1, 28, 29, 30, 31, 32}

Hours == {0, 23, 24}

Minutes == {0, 59, 60}

Seconds == {0, 59, 60, 255}

Offsets == {-18000, 3600}

InitClock ==
    /\ InitIdle
    /\ frac = SECOND
    /\ now = Some(0, 0, 0)
    /\ start = Some(0, 0, 0)

NextClock ==
    \/ /\ made.op = "none"
       /\ \E days \in ClockDays, secs \in {0, 86399}, nanos \in {0, 999999999} :
              ClockNew(days, secs, nanos)
    \/ /\ made.op = "none"
       /\ \E year \in Years, month \in Months, day \in Days, hour \in Hours,
             min \in Minutes, sec \in Seconds :
              Utc(year, month, day, hour, min, sec)
    \/ /\ made.op = "none"
       /\ \E year \in Years, month \in Months, day \in Days, hour \in Hours,
             min \in Minutes, sec \in Seconds, offset \in Offsets,
             single \in BOOLEAN :
              Local(year, month, day, hour, min, sec, offset, single)

SpecClock == InitClock /\ [][NextClock]_vars

(***************************************************************************)
(* Measuring: a program holds a start Clock and a unit, captures `now`     *)
(* (again and again, as the module's example loop does) and calls          *)
(* now.since(&start, frac).                                                *)
(***************************************************************************)
Since ==
    /\ ~aborted /\ ~elapsed.called
    /\ elapsed' = [called |-> TRUE, out |-> since(checks, now, start, frac)]
    /\ aborted' = (elapsed'.out.kind = "panic")
    /\ UNCHANGED <<checks, frac, arith, ops, clean, now, start, made>>

\* 2024-01-01, the day the measured instants lie on.
Day0 == days_from_civil(2024, 1, 1)

SubSecs == {0, 1, 500000000, 999999999}

\* The start: a reading of the host clock in the first or the last of the
\* enumerated seconds of Day0.
Starts == {Some(Day0, secs, nanos) : secs \in {0, MaxSecs}, nanos \in {0, 999999999}}

\* Units: every small numerator over every small denominator (zero included),
\* the named sub-second units, and units at the ends of the i32 and u32 ranges.
Units ==
    {new(W(n), W(d)) : n \in (0 - MaxNum) .. MaxNum, d \in 0 .. MaxDen}
    \cup {MILLISECOND, NANOSECOND, new(W(1073741824), W(1)), new(MaxI32, W(1)),
          new(MinI32, MaxU32)}

\* Dates given to Clock::utc: Day0, one second later, and two dates 2^33
\* seconds and 2^32 + 3 seconds after Day0.
UtcDates == {<<2024, 1, 1, 0, 0, 0>>, <<2024, 1, 1, 0, 0, 1>>,
             <<2296, 3, 15, 12, 56, 32>>, <<2160, 2, 7, 6, 28, 19>>}

Init ==
    /\ InitIdle
    /\ frac \in Units
    /\ start \in Starts
    /\ now = start

Next ==
    \/ \E secs \in 0 .. MaxSecs, nanos \in SubSecs : ClockNew(Day0, secs, nanos)
    \/ \E date \in UtcDates :
           Utc(date[1], date[2], date[3], date[4], date[5], date[6])
    \/ Since

Spec == Init /\ [][Next]_vars

(***************************************************************************)
(* The claims.                                                             *)
(***************************************************************************)
\* The difference now - start as since sees it: whole seconds S, the rest R
\* in nanoseconds, and both together in nanoseconds.
DiffSeconds == num_seconds(signed_duration_since(now, start))

DiffRest == subsec_nanos(signed_duration_since(now, start))

DiffNanos == WAdd(WMul(DiffSeconds, W(NANOS_PER_SEC)), DiffRest)

ValidUnit == ~WIsZero(frac.denominator)

\* The whole units of value seconds/denominator in the difference:
\* trunc((now - start) / (seconds/denominator)).
WholeUnits ==
    WQuot(WMul(DiffNanos, frac.denominator), WMul(frac.seconds, W(NANOS_PER_SEC)))

\* C1: for a unit with a nonzero denominator and a positive value, since
\* returns the number of whole units between start and now, that is the
\* difference divided by the unit's value, truncated toward zero (1 for one
\* second in SECOND, 1000 for one second in MILLISECOND).
C1_CountsWholeUnits ==
    (elapsed.called /\ ValidUnit /\ WLess(W(0), frac.seconds))
        => elapsed.out = Returned(WholeUnits)

\* C2: for two distinct instants and a unit with a nonzero denominator,
\* since(now, start, unit) = -since(start, now, unit).
C2_Antisymmetric ==
    (elapsed.called /\ ValidUnit /\ now /= start)
        => /\ elapsed.out.kind = "return"
           /\ since(checks, start, now, frac).kind = "return"
           /\ elapsed.out.count = WNeg(since(checks, start, now, frac).count)

\* C3: for any instant a and any unit with a nonzero denominator, whatever
\* its numerator, since(a, a, unit) = 0.
C3_SameInstantIsZero ==
    (elapsed.called /\ ValidUnit /\ now = start) => elapsed.out = Returned(W(0))

C3_Witness ==
    /\ elapsed.called /\ ValidUnit /\ now = start
    /\ made.op = "utc"
    /\ frac.seconds.neg
    /\ elapsed.out.kind = "return"

\* C4: since with a unit whose denominator is 0 ends in the explicit failure
\* InvalidDurationDenominator, before any scaling or division: it returns no
\* count and reaches no division or remainder by zero.
C4_ZeroDenominatorRejected ==
    (elapsed.called /\ ~ValidUnit)
        => /\ elapsed.out.kind = "InvalidDurationDenominator"
           /\ elapsed.out.at /= "seconds % frac_den"

\* C5: Clock::utc and Clock::local return None, without crashing, for every
\* field tuple that is no valid date and time, and Some only for fields the
\* calendar accepts.
C5_InvalidFieldsGiveNone ==
    (made.op \in {"utc", "local"})
        => IF valid_ymd(made.year, made.month, made.day)
              /\ valid_hms(made.hour, made.min, made.sec)
           THEN made.out.kind \in {"Some", "None"}
           ELSE made.out.kind = "None"

\* C6: for a Duration with a nonzero denominator and a nonzero i32 k, d / k
\* has seconds = seconds for k > 0 and -seconds for k < 0, and denominator =
\* denominator * |k|, exactly, with no wrap-around of either 32-bit field.
C6_DivExact ==
    (arith.op = "div" /\ ~WIsZero(arith.self.denominator) /\ ~WIsZero(arith.other))
        => /\ ~arith.out.panic
           /\ arith.out.seconds =
                  (IF arith.other.neg THEN WNeg(arith.self.seconds)
                   ELSE arith.self.seconds)
           /\ arith.out.denominator = WMul(arith.self.denominator, WAbs(arith.other))

\* C7: for a Duration with a nonzero denominator and a nonzero i32 k, d * k
\* has seconds = seconds * k and the denominator unchanged, exactly, with no
\* wrap-around of the i32 seconds.
C7_MulExact ==
    (arith.op = "mul" /\ ~WIsZero(arith.self.denominator) /\ ~WIsZero(arith.other))
        => /\ ~arith.out.panic
           /\ arith.out.seconds = WMul(arith.self.seconds, arith.other)
           /\ arith.out.denominator = arith.self.denominator

\* The count the algorithm of since gives in unbounded integers.
ExactSeconds == WQuot(WMul(DiffSeconds, frac.seconds), frac.denominator)

ExactNanos ==
    WQuot(WAdd(WMul(DiffRest, frac.seconds),
               WMul(WRem(WMul(DiffSeconds, frac.seconds), frac.denominator),
                    W(NANOS_PER_SEC))),
          frac.denominator)

ExactCount == WAdd(ExactSeconds, WQuot(ExactNanos, W(NANOS_PER_SEC)))

\* C8: since never returns a wrapped or truncated count: every count it
\* returns is the exact, unbounded-integer result of its algorithm (a value
\* that does not fit its type is reported as ArithmeticOverflow instead).
C8_NoSilentWrap ==
    (elapsed.called /\ ValidUnit /\ elapsed.out.kind = "return")
        => elapsed.out.count = ExactCount

\* The single truncated division of the whole difference:
\* trunc((S * 10^9 + R) * n / (d * 10^9)).
FullDivision ==
    WQuot(WMul(DiffNanos, frac.seconds), WMul(frac.denominator, W(NANOS_PER_SEC)))

\* C9: with all values in range, the count since computes from the split
\* seconds and nanoseconds equals the single truncated division of the whole
\* difference, trunc((S * 10^9 + R) * n / (d * 10^9)).
C9_SplitLosesNoPrecision ==
    (elapsed.called /\ ValidUnit /\ InI64(ExactSeconds) /\ InI64(FullDivision))
        => elapsed.out = Returned(FullDivision)

\* A call where the split matters: the seconds leave a remainder, there is a
\* sub-second rest, the difference is negative and the count is not zero.
C9_Witness ==
    /\ elapsed.called /\ ValidUnit
    /\ ~WIsZero(WRem(WMul(DiffSeconds, frac.seconds), frac.denominator))
    /\ DiffRest.neg
    /\ elapsed.out.kind = "return"
    /\ ~WIsZero(elapsed.out.count)
    /\ InI64(ExactSeconds) /\ InI64(FullDivision)

\* C10: every Duration reached from the named constants or from new(s, d)
\* with d /= 0 through `/` and `*` by nonzero factors has a nonzero
\* denominator.
C10_DenominatorNonZero ==
    (clean /\ arith.op /= "none") => ~WIsZero(frac.denominator)

====
